---- MODULE Spec2Model ----
(***************************************************************************)
(* A model of the zoning visualizer: the Waterloo zone test and the height *)
(* gate of app.py, the footprint builders of app.py and 3dbuildings.py,   *)
(* rotate_points, and the input flow of the two Streamlit scripts.        *)
(*                                                                         *)
(* Numbers.  A coordinate the user types or the geocoder returns is a      *)
(* decimal; the model keeps it in thousandths of a degree (an integer).    *)
(* Geometry is computed in binary floating point: a float is an integer    *)
(* count of quanta of 2^-22 degree (Q) that holds at most MantissaBits     *)
(* significant bits, and every float operation rounds its exact result to  *)
(* the nearest such value (ties to even), as IEEE arithmetic does.  The    *)
(* code's doubles carry 53 bits; the model carries fewer, so that the      *)
(* rounding of a coordinate is visible at the scale of a building.         *)
(***************************************************************************)
EXTENDS Integers, Sequences, FiniteSets, TLC

VARIABLES
    \* app.py: st.session_state
    latitude, longitude, formatted_address, rotation,
    \* app.py: the widgets' values and what the last script run computed
    address, height, length, width, in_waterloo, max_height,
    building_data, event, location,
    \* 3dbuildings.py: the widgets' values and what the last script run computed
    b_input_type, b_address, b_lat_input, b_lon_input, b_width, b_length,
    b_height, b_lat, b_lon, b_polygon, b_error,
    \* a call of one of the pure functions: its arguments, its name, its result
    call_args, call_op, call_ret

appVars == <<latitude, longitude, formatted_address, rotation, address, height,
             length, width, in_waterloo, max_height, building_data, event,
             location>>
bldVars == <<b_input_type, b_address, b_lat_input, b_lon_input, b_width,
             b_length, b_height, b_lat, b_lon, b_polygon, b_error>>
fnVars == <<call_args, call_op, call_ret>>
vars == <<appVars, bldVars, fnVars>>

None == "None"

-----------------------------------------------------------------------------
(* Floating point *)

\* Bits of a float's significand (the code's float64 has 53).
MantissaBits == 24
\* A float is a count of quanta of 2^-22 degree.
Q == 2^22
\* cos and sin are tabulated as multiples of 2^-16.
TrigOne == 2^16

Abs(n) == IF n < 0 THEN -n ELSE n

\* n / d rounded to the nearest integer, ties to even (d > 0).
RoundDiv(n, d) ==
    LET q == n \div d
        r == n % d
    IN  IF 2 * r < d THEN q
        ELSE IF 2 * r > d THEN q + 1
        ELSE IF q % 2 = 0 THEN q ELSE q + 1

RECURSIVE UlpOf(_)
\* The spacing of the floats around a magnitude a >= 0.
UlpOf(a) == IF a < 2^MantissaBits THEN 1 ELSE 2 * UlpOf(a \div 2)

Ulp(n) == UlpOf(Abs(n))

\* The float nearest to the exact value n, ties to even.
Fl(n) == RoundDiv(n, Ulp(n)) * Ulp(n)

\* The float of a decimal given in thousandths of a degree.
ToFloat(mdeg) ==
    Fl((mdeg \div 1000) * Q + RoundDiv((mdeg % 1000) * (Q \div 8), 125))

\* np.cos(np.radians(x)) for x in thousandths of a degree, first quadrant.
CosQ1(r) ==
    CASE r = 0 -> 65536
      [] r = 15000 -> 63303
      [] r = 30000 -> 56756
      [] r = 43465 -> 47566
      [] r = 43470 -> 47562
      [] r = 43593 -> 47465
      [] r = 45000 -> 46341
      [] r = 60000 -> 32768
      [] r = 75000 -> 16962
      [] r = 90000 -> 0

np_cos(x) ==
    LET r == x % 360000
    IN  IF r <= 90000 THEN CosQ1(r)
        ELSE IF r <= 180000 THEN -CosQ1(180000 - r)
        ELSE IF r <= 270000 THEN -CosQ1(r - 180000)
        ELSE CosQ1(360000 - r)

np_sin(x) == np_cos(x - 90000)

-----------------------------------------------------------------------------
(* app.py: the zone *)

WATERLOO_ZONE ==
    [coordinates |-> << <<-80580, 43490>>, <<-80580, 43440>>,
                        <<-80500, 43440>>, <<-80500, 43490>> >>,
     center |-> <<-80540, 43465>>,
     height_limit |-> 100]

\* Whether p lies on the segment from a to b.
OnSegment(p, a, b) ==
    /\ p[1] >= (IF a[1] < b[1] THEN a[1] ELSE b[1])
    /\ p[1] <= (IF a[1] < b[1] THEN b[1] ELSE a[1])
    /\ p[2] >= (IF a[2] < b[2] THEN a[2] ELSE b[2])
    /\ p[2] <= (IF a[2] < b[2] THEN b[2] ELSE a[2])
    /\ (b[1] - a[1]) * (p[2] - a[2]) = (b[2] - a[2]) * (p[1] - a[1])

\* Whether the ray from p towards +x crosses the edge from a to b.
Crosses(p, a, b) ==
    /\ (a[2] > p[2]) # (b[2] > p[2])
    /\ IF b[2] > a[2]
       THEN (p[1] - a[1]) * (b[2] - a[2]) < (p[2] - a[2]) * (b[1] - a[1])
       ELSE (p[1] - a[1]) * (b[2] - a[2]) > (p[2] - a[2]) * (b[1] - a[1])

\* shapely's Polygon(ring).contains(Point(p)): p is in the interior of the
\* ring, a point of the boundary is not contained.
PolygonContains(ring, p) ==
    LET n == Len(ring)
        nxt(i) == IF i = n THEN 1 ELSE i + 1
    IN  /\ \A i \in 1..n : ~OnSegment(p, ring[i], ring[nxt(i)])
        /\ Cardinality({i \in 1..n : Crosses(p, ring[i], ring[nxt(i)])}) % 2 = 1

\* The point built as Point(lat, lon).
is_in_waterloo_zone_swapped(lon, lat) ==
    PolygonContains(WATERLOO_ZONE.coordinates, <<lat, lon>>)

is_in_waterloo_zone(lon, lat) ==
    PolygonContains(WATERLOO_ZONE.coordinates, <<lon, lat>>)

-----------------------------------------------------------------------------
(* app.py: rotation and the fixed-scalar footprint builder *)

\* The rotation with the sign of the sine terms exchanged: clockwise.
rotate_points_clockwise(points, angle_degrees, center) ==
    LET cos_angle == np_cos(angle_degrees * 1000)
        sin_angle == np_sin(angle_degrees * 1000)
        rotated(point) ==
            LET px == Fl(point[1] - center[1])
                py == Fl(point[2] - center[2])
                rx == RoundDiv(px * cos_angle + py * sin_angle, TrigOne)
                ry == RoundDiv(py * cos_angle - px * sin_angle, TrigOne)
            IN  <<Fl(rx + center[1]), Fl(ry + center[2])>>
    IN  [i \in 1..Len(points) |-> rotated(points[i])]

\* The rotation with a sign slip in ry: a reflection.
rotate_points_reflected(points, angle_degrees, center) ==
    LET cos_angle == np_cos(angle_degrees * 1000)
        sin_angle == np_sin(angle_degrees * 1000)
        rotated(point) ==
            LET px == Fl(point[1] - center[1])
                py == Fl(point[2] - center[2])
                rx == RoundDiv(px * cos_angle - py * sin_angle, TrigOne)
                ry == RoundDiv(px * sin_angle - py * cos_angle, TrigOne)
            IN  <<Fl(rx + center[1]), Fl(ry + center[2])>>
    IN  [i \in 1..Len(points) |-> rotated(points[i])]

rotate_points(points, angle_degrees, center) ==
    LET cos_angle == np_cos(angle_degrees * 1000)
        sin_angle == np_sin(angle_degrees * 1000)
        rotated(point) ==
            LET px == Fl(point[1] - center[1])
                py == Fl(point[2] - center[2])
                rx == RoundDiv(px * cos_angle - py * sin_angle, TrigOne)
                ry == RoundDiv(px * sin_angle + py * cos_angle, TrigOne)
            IN  <<Fl(rx + center[1]), Fl(ry + center[2])>>
    IN  [i \in 1..Len(points) |-> rotated(points[i])]

\* meter_to_coord = 0.00001 = 1 / meter_to_coord_den degree per metre.
meter_to_coord_den == 100000

\* The rectangle with the sides not halved.
building_rectangle_unhalved(lon, lat, l, w) ==
    LET half_length == RoundDiv(l * Q, meter_to_coord_den)
        half_width == RoundDiv(w * Q, meter_to_coord_den)
        flon == ToFloat(lon)
        flat == ToFloat(lat)
    IN  << <<Fl(flon - half_width), Fl(flat - half_length)>>,
           <<Fl(flon + half_width), Fl(flat - half_length)>>,
           <<Fl(flon + half_width), Fl(flat + half_length)>>,
           <<Fl(flon - half_width), Fl(flat + half_length)>> >>

\* The rectangle of create_building_data before it is rotated.
building_rectangle(lon, lat, l, w) ==
    LET half_length == RoundDiv(l * Q, 2 * meter_to_coord_den)
        half_width == RoundDiv(w * Q, 2 * meter_to_coord_den)
        flon == ToFloat(lon)
        flat == ToFloat(lat)
    IN  << <<Fl(flon - half_width), Fl(flat - half_length)>>,
           <<Fl(flon + half_width), Fl(flat - half_length)>>,
           <<Fl(flon + half_width), Fl(flat + half_length)>>,
           <<Fl(flon - half_width), Fl(flat + half_length)>> >>

create_building_data(lon, lat, h, l, w, rot) ==
    LET polygon == building_rectangle(lon, lat, l, w)
        center == <<ToFloat(lon), ToFloat(lat)>>
        rotated_polygon == rotate_points(polygon, rot, center)
    IN  [polygon |-> rotated_polygon, height |-> h]

-----------------------------------------------------------------------------
(* 3dbuildings.py: the latitude-corrected footprint builder *)

\* Metres per degree of latitude.
meters_per_degree == 111111

create_building_polygon(lat, lon, w, l, h) ==
    LET lat_offset == RoundDiv(w * Q, meters_per_degree)
        \* length / (111111 * cos(lat)): first 64 * length / cos(lat), in metres
        metres64 == RoundDiv(l * 64 * TrigOne, np_cos(lat))
        lon_offset == RoundDiv(metres64 * (Q \div 64), meters_per_degree)
        flon == ToFloat(lon)
        flat == ToFloat(lat)
        half(x) == RoundDiv(x, 2)
    IN  [polygon |-> << <<Fl(flon - half(lon_offset)), Fl(flat - half(lat_offset))>>,
                        <<Fl(flon + half(lon_offset)), Fl(flat - half(lat_offset))>>,
                        <<Fl(flon + half(lon_offset)), Fl(flat + half(lat_offset))>>,
                        <<Fl(flon - half(lon_offset)), Fl(flat + half(lat_offset))>> >>,
         height |-> h]

-----------------------------------------------------------------------------
(* app.py: the geocoder, the widgets and the script *)

\* An optional value: <<>> is Python's None, <<x>> is x.
Some(x) == <<x>>
NoValue == <<>>

\* Python's truth of an optional number: None and 0.0 are false.
Truthy(o) == o # NoValue /\ o[1] # 0

\* What geocoder.geocode may do: return a location, return None, or raise.
Located(lat, lon, addr) ==
    [kind |-> "location", latitude |-> lat, longitude |-> lon, address |-> addr]
NotLocated == [kind |-> "none", latitude |-> 0, longitude |-> 0, address |-> ""]
Raised(e) == [kind |-> e, latitude |-> 0, longitude |-> 0, address |-> ""]
NotAsked == [kind |-> "not asked", latitude |-> 0, longitude |-> 0, address |-> ""]

\* The places Nominatim knows, by the address typed.
Gazetteer(a) ==
    CASE a = "Square One" -> Located(43593, -79642, "Square One, Mississauga")
      [] a = "Waterloo Park" -> Located(43470, -80520, "Waterloo Park, Waterloo")
      [] a = "Mitad del Mundo" -> Located(0, -78455, "Mitad del Mundo, Quito")
      [] OTHER -> NotLocated

Addresses == {"Square One", "Waterloo Park", "Mitad del Mundo", "nowhere"}

GeocoderAnswers(a) ==
    {Gazetteer(a), Raised("GeocoderTimedOut"), Raised("GeocoderUnavailable")}

\* geocode_address, given what geocoder.geocode did.
geocode_address(answer) ==
    IF answer.kind \in {"GeocoderTimedOut", "GeocoderUnavailable"}
    THEN <<NoValue, NoValue, NoValue>>
    ELSE IF answer.kind = "location"
    THEN <<Some(answer.latitude), Some(answer.longitude), Some(answer.address)>>
    ELSE <<NoValue, NoValue, NoValue>>

\* The maximum the height input is given (line 168).
unrestricted_height == 1000
\* The limit never applied.
max_height_unrestricted(inw) == unrestricted_height

\* The two branches exchanged.
max_height_exchanged(inw) ==
    IF inw THEN unrestricted_height ELSE WATERLOO_ZONE.height_limit

max_height_for(inw) ==
    IF inw THEN WATERLOO_ZONE.height_limit ELSE unrestricted_height

\* The value the height input starts from (line 170).
default_height == 100

\* st.number_input for the height: a keyless widget is identified by its
\* arguments, so it keeps the value it holds while max_value is the same
\* and starts again from its default when max_value changes; an edit is
\* the value the user committed.
height_input(edit, mh) ==
    IF edit # NoValue THEN edit[1]
    ELSE IF mh = max_height THEN height
    ELSE default_height

\* What the user may type into the inputs.
LonInputs == {-80540, -79000}
LatInputs == {43465, 0}
HeightInputs == {0, 50, 150, 1500}
SideInputs == {0, 10}
RotationInputs == {0, 90}

\* The script from the coordinate inputs to the chart (lines 135-293): lon
\* and lat are what the two coordinate inputs return, fa the session's
\* address, edit an edit of the height, l, w, r the other widgets' values.
ScriptTail(ev, lon, lat, fa, edit, l, w, r) ==
    LET inw == is_in_waterloo_zone(lon, lat)
        mh == max_height_for(inw)
        h == height_input(edit, mh)
    IN  /\ longitude' = lon /\ latitude' = lat /\ formatted_address' = fa
        /\ in_waterloo' = inw /\ max_height' = mh
        /\ height' = h /\ length' = l /\ width' = w /\ rotation' = r
        /\ building_data' = create_building_data(lon, lat, h, l, w, r)
        /\ event' = ev
        /\ UNCHANGED <<bldVars, fnVars>>

AppInit ==
    /\ latitude = 43465 /\ longitude = -80540
    /\ formatted_address = "Waterloo, ON, Canada" /\ rotation = 0
    /\ address = "Square One" /\ height = default_height
    /\ length = 50 /\ width = 30
    /\ in_waterloo = is_in_waterloo_zone(-80540, 43465)
    /\ max_height = max_height_for(is_in_waterloo_zone(-80540, 43465))
    /\ building_data = create_building_data(-80540, 43465, default_height,
                                            50, 30, 0)
    /\ event = "start" /\ location = NotAsked

\* The user types another address: a run in which Search is not pressed.
EditAddress(a) ==
    /\ a # address
    /\ address' = a /\ location' = NotAsked
    /\ ScriptTail("address", longitude, latitude, formatted_address, NoValue,
                  length, width, rotation)

\* The user presses Search (lines 124-133); answer is what the geocoder does.
PressSearch(answer) ==
    LET found == geocode_address(answer)
        lat == found[1]
        lon == found[2]
    IN  /\ location' = answer
        /\ UNCHANGED address
        /\ IF Truthy(lat) /\ Truthy(lon)
           THEN ScriptTail("search", lon[1], lat[1], found[3][1], NoValue,
                           length, width, rotation)
           ELSE ScriptTail("search", longitude, latitude, formatted_address,
                           NoValue, length, width, rotation)

EditLongitude(v) ==
    /\ v # longitude
    /\ UNCHANGED address /\ location' = NotAsked
    /\ ScriptTail("longitude", v, latitude, formatted_address, NoValue,
                  length, width, rotation)

EditLatitude(v) ==
    /\ v # latitude
    /\ UNCHANGED address /\ location' = NotAsked
    /\ ScriptTail("latitude", longitude, v, formatted_address, NoValue,
                  length, width, rotation)

\* The height input commits only a value within min_value and max_value.
EditHeight(h) ==
    /\ h # height
    /\ 1 <= h /\ h <= max_height
    /\ UNCHANGED address /\ location' = NotAsked
    /\ ScriptTail("height", longitude, latitude, formatted_address, Some(h),
                  length, width, rotation)

EditLength(l) ==
    /\ l # length
    /\ 1 <= l
    /\ UNCHANGED address /\ location' = NotAsked
    /\ ScriptTail("length", longitude, latitude, formatted_address, NoValue,
                  l, width, rotation)

EditWidth(w) ==
    /\ w # width
    /\ 1 <= w
    /\ UNCHANGED address /\ location' = NotAsked
    /\ ScriptTail("width", longitude, latitude, formatted_address, NoValue,
                  length, w, rotation)

MoveRotation(r) ==
    /\ r # rotation
    /\ UNCHANGED address /\ location' = NotAsked
    /\ ScriptTail("rotation", longitude, latitude, formatted_address, NoValue,
                  length, width, r)

AppNext ==
    \/ \E a \in Addresses : EditAddress(a)
    \/ \E answer \in GeocoderAnswers(address) : PressSearch(answer)
    \/ \E v \in LonInputs : EditLongitude(v)
    \/ \E v \in LatInputs : EditLatitude(v)
    \/ \E h \in HeightInputs : EditHeight(h)
    \/ \E l \in SideInputs : EditLength(l)
    \/ \E w \in SideInputs : EditWidth(w)
    \/ \E r \in RotationInputs : MoveRotation(r)

-----------------------------------------------------------------------------
(* 3dbuildings.py: the script *)

\* A Python name of the script: not yet assigned, None, or a float.
Unbound == [state |-> "unbound", value |-> 0]
PyNone == [state |-> "None", value |-> 0]
Float(x) == [state |-> "float", value |-> x]

\* get_coordinates, given what geolocator.geocode did: (lat, lon) or None.
get_coordinates(answer) ==
    IF answer.kind \in {"GeocoderTimedOut", "GeocoderUnavailable"}
    THEN NoValue
    ELSE IF answer.kind = "location"
    THEN Some(<<answer.latitude, answer.longitude>>)
    ELSE NoValue

\* What the user may type into the inputs.
BldAddresses == {"", "Square One", "Mitad del Mundo", "nowhere"}
BldLatInputs == {0, 43465, 60000}
BldLonInputs == {0, -80540}
BldSideInputs == {0, 10, 30, 50}

\* One run of the script: t, a, lat_in, lon_in, w, l, h are what the widgets
\* return, answer is what the geocoder does if it is asked.
Script3d(t, a, answer, lat_in, lon_in, w, l, h) ==
    LET coordinates == get_coordinates(answer)
        lat == IF t = "Address"
               THEN IF a # ""
                    THEN IF coordinates # NoValue
                         THEN Float(coordinates[1][1]) ELSE PyNone
                    ELSE Unbound
               ELSE Float(lat_in)
        lon == IF t = "Address"
               THEN IF a # ""
                    THEN IF coordinates # NoValue
                         THEN Float(coordinates[1][2]) ELSE PyNone
                    ELSE Unbound
               ELSE Float(lon_in)
    IN  /\ b_input_type' = t /\ b_address' = a
        /\ b_lat_input' = lat_in /\ b_lon_input' = lon_in
        /\ b_width' = w /\ b_length' = l /\ b_height' = h
        /\ b_lat' = lat /\ b_lon' = lon
        /\ IF lat.state = "unbound"
           THEN b_error' = "NameError" /\ b_polygon' = NoValue
           ELSE IF lat.state # "None" /\ lon.state # "None"
           THEN /\ b_error' = "none"
                /\ b_polygon' = Some(create_building_polygon(lat.value,
                                         lon.value, w, l, h))
           ELSE b_error' = "none" /\ b_polygon' = NoValue
        /\ UNCHANGED <<appVars, fnVars>>

\* The first run: the radio on "Address", the address empty.
BldInit ==
    /\ b_input_type = "Address" /\ b_address = ""
    /\ b_lat_input = 0 /\ b_lon_input = 0
    /\ b_width = 10 /\ b_length = 10 /\ b_height = 5
    /\ b_lat = Unbound /\ b_lon = Unbound
    /\ b_polygon = NoValue /\ b_error = "NameError"

\* The radio is moved; the inputs of the other branch start from their defaults.
SelectInputType(t) ==
    /\ t # b_input_type
    /\ Script3d(t, "", NotAsked, 0, 0, b_width, b_length, b_height)

TypeAddress(a, answer) ==
    /\ b_input_type = "Address"
    /\ a # b_address
    /\ Script3d("Address", a, answer, 0, 0, b_width, b_length, b_height)

EnterLatitude(v) ==
    /\ b_input_type = "Coordinates"
    /\ v # b_lat_input
    /\ -90000 <= v /\ v <= 90000
    /\ Script3d("Coordinates", "", NotAsked, v, b_lon_input, b_width,
                b_length, b_height)

EnterLongitude(v) ==
    /\ b_input_type = "Coordinates"
    /\ v # b_lon_input
    /\ -180000 <= v /\ v <= 180000
    /\ Script3d("Coordinates", "", NotAsked, b_lat_input, v, b_width,
                b_length, b_height)

\* A building input is edited; in Address mode the address is looked up again.
SetWidth(w, answer) ==
    /\ w # b_width
    /\ 1 <= w
    /\ Script3d(b_input_type, b_address, answer, b_lat_input, b_lon_input, w,
                b_length, b_height)

SetLength(l, answer) ==
    /\ l # b_length
    /\ 1 <= l
    /\ Script3d(b_input_type, b_address, answer, b_lat_input, b_lon_input,
                b_width, l, b_height)

SetHeight(h, answer) ==
    /\ h # b_height
    /\ 1 <= h
    /\ Script3d(b_input_type, b_address, answer, b_lat_input, b_lon_input,
                b_width, b_length, h)

BldNext ==
    \/ \E t \in {"Address", "Coordinates"} : SelectInputType(t)
    \/ \E a \in BldAddresses : \E answer \in GeocoderAnswers(a) :
          TypeAddress(a, answer)
    \/ \E v \in BldLatInputs : EnterLatitude(v)
    \/ \E v \in BldLonInputs : EnterLongitude(v)
    \/ \E w \in BldSideInputs : \E answer \in GeocoderAnswers(b_address) :
          SetWidth(w, answer)
    \/ \E l \in BldSideInputs : \E answer \in GeocoderAnswers(b_address) :
          SetLength(l, answer)
    \/ \E h \in {0, 5, 50} : \E answer \in GeocoderAnswers(b_address) :
          SetHeight(h, answer)


-----------------------------------------------------------------------------
(* Calls of the pure functions *)

\* The largest building side drawn is (2 * MaxDimSteps - 1) * 10 metres.
MaxDimSteps == 3
\* The rotations drawn are the multiples of 15 degrees up to 15 * MaxAngleSteps,
\* and the half and three-quarter turns.
MaxAngleSteps == 6
\* The points the zone is asked about lie up to GridRadius thousandths of a
\* degree on either side of each of its edges.
GridRadius == 1

FnLons == {-80540, -79642, 0, 120000}
FnLats == {43465, 0, 60000, -45000}
FnDims == {-1, 0} \cup {20 * k - 10 : k \in 1..MaxDimSteps}
FnHeights == {0, 5}
FnAngles == {15 * k : k \in 0..MaxAngleSteps} \cup {180, 270}

ZoneLons == {b + d : b \in {-80580, -80500}, d \in -GridRadius..GridRadius}
                \cup {-80540, -79000}
ZoneLats == {b + d : b \in {43440, 43490}, d \in -GridRadius..GridRadius}
                \cup {43465, 0}

AppParked == AppInit

BldParked == BldInit

\* What a call hands back: the value it returns, no exception raised.
Returned(v) == [raised |-> None, value |-> v]

FnParked == call_args = None /\ call_op = "none" /\ call_ret = None

ZoneInit ==
    /\ call_args \in [lon : ZoneLons, lat : ZoneLats]
    /\ call_op = "none" /\ call_ret = None
    /\ AppParked /\ BldParked

CallIsInWaterlooZone ==
    /\ call_op = "none"
    /\ call_op' = "is_in_waterloo_zone"
    /\ call_ret' = Returned(is_in_waterloo_zone(call_args.lon, call_args.lat))
    /\ UNCHANGED <<call_args, appVars, bldVars>>

\* Lines 154 and 168: the maximum the height input is given at a point.
CallMaxHeight ==
    /\ call_op = "none"
    /\ call_op' = "max_height"
    /\ call_ret' = Returned(max_height_for(
                        is_in_waterloo_zone(call_args.lon, call_args.lat)))
    /\ UNCHANGED <<call_args, appVars, bldVars>>

ZoneNext == CallIsInWaterlooZone \/ CallMaxHeight


FnInit ==
    /\ call_args \in [lon : FnLons, lat : FnLats, width : FnDims,
                      length : FnDims, height : FnHeights, rotation : FnAngles]
    /\ call_op = "none" /\ call_ret = None
    /\ AppParked /\ BldParked

CallCreateBuildingData ==
    /\ call_op = "none"
    /\ call_op' = "create_building_data"
    /\ call_ret' = Returned(create_building_data(call_args.lon, call_args.lat,
                        call_args.height, call_args.length, call_args.width,
                        call_args.rotation))
    /\ UNCHANGED <<call_args, appVars, bldVars>>

CallCreateBuildingPolygon ==
    /\ call_op = "none"
    /\ call_op' = "create_building_polygon"
    /\ call_ret' = Returned(create_building_polygon(call_args.lat, call_args.lon,
                        call_args.width, call_args.length, call_args.height))
    /\ UNCHANGED <<call_args, appVars, bldVars>>

\* The point list and the center the rotation calls are given.
ArgPoints == building_rectangle(call_args.lon, call_args.lat,
                                call_args.length, call_args.width)
ArgCenter == <<ToFloat(call_args.lon), ToFloat(call_args.lat)>>

CallRotatePoints ==
    /\ call_op = "none"
    /\ call_op' = "rotate_points"
    /\ call_ret' = Returned(rotate_points(ArgPoints, call_args.rotation, ArgCenter))
    /\ UNCHANGED <<call_args, appVars, bldVars>>

\* The result of a rotation, rotated by the opposite angle.
CallRotateBack ==
    /\ call_op = "rotate_points"
    /\ call_op' = "rotate_back"
    /\ call_ret' = Returned(rotate_points(call_ret.value, -call_args.rotation,
                                        ArgCenter))
    /\ UNCHANGED <<call_args, appVars, bldVars>>

FnNext ==
    \/ CallCreateBuildingData
    \/ CallCreateBuildingPolygon
    \/ CallRotatePoints
    \/ CallRotateBack


-----------------------------------------------------------------------------
(* The specifications: app.py, 3dbuildings.py, and the calls of the pure   *)
(* functions; each leaves the variables of the others as they start.       *)

Init == AppInit /\ BldParked /\ FnParked

Next == AppNext

Spec == Init /\ [][Next]_vars

BldStart == BldInit /\ AppParked /\ FnParked

SpecBld == BldStart /\ [][BldNext]_vars

SpecZone == ZoneInit /\ [][ZoneNext]_vars

SpecFn == FnInit /\ [][FnNext]_vars

-----------------------------------------------------------------------------
(* Measures of a footprint *)

\* The extent of a 4-vertex footprint along each axis, in quanta.
EastWest(P) == P[2][1] - P[1][1]
NorthSouth(P) == P[4][2] - P[1][2]

\* The rounding a coordinate near the center c may carry: one unit in the
\* last place of the larger coordinate, and the quantum of the offsets.
Tol(c) == (IF Ulp(c[1]) > Ulp(c[2]) THEN Ulp(c[1]) ELSE Ulp(c[2])) + 1

\* An extent of ext quanta is m metres under the fixed-scalar policy.
IsMetresFixed(ext, m, tol) ==
    Abs(ext * meter_to_coord_den - m * Q) <= tol * meter_to_coord_den

\* An extent of ext quanta of latitude is m metres under the
\* latitude-corrected policy.
IsMetresLat(ext, m, tol) ==
    Abs(ext * meters_per_degree - m * Q) <= tol * meters_per_degree

\* An extent of ext quanta of longitude at latitude lat is m metres under
\* the latitude-corrected policy (compared in 64ths of a metre).
IsMetresLon(ext, lat, m, tol) ==
    Abs(RoundDiv(RoundDiv(ext * meters_per_degree, Q \div 64) * np_cos(lat),
                 TrigOne) - 64 * m) <= 2 * tol + 5

\* P is an axis-aligned rectangle listed south-west, south-east, north-east,
\* north-west, whose centroid is c to within the rounding.
IsRectangleAbout(P, c) ==
    /\ Len(P) = 4
    /\ P[1][2] = P[2][2] /\ P[3][2] = P[4][2]
    /\ P[1][1] = P[4][1] /\ P[2][1] = P[3][1]
    /\ P[1][1] < P[2][1] /\ P[1][2] < P[4][2]
    /\ Abs((P[1][1] - c[1]) + (P[2][1] - c[1])
           + (P[3][1] - c[1]) + (P[4][1] - c[1])) <= 4 * Tol(c)
    /\ Abs((P[1][2] - c[2]) + (P[2][2] - c[2])
           + (P[3][2] - c[2]) + (P[4][2] - c[2])) <= 4 * Tol(c)

PositiveSides == call_args.width > 0 /\ call_args.length > 0

\* Two point lists agree vertex by vertex to within tol.
ClosePoints(A, B, tol) ==
    /\ Len(A) = Len(B)
    /\ \A i \in 1..Len(A) :
          Abs(A[i][1] - B[i][1]) <= tol /\ Abs(A[i][2] - B[i][2]) <= tol

-----------------------------------------------------------------------------
(* Claims about the pure functions *)

\* C3: the footprint builders fail with InvalidDimension, producing no
\* polygon, whenever width <= 0, length <= 0 or height <= 0.
C3_RejectsNonPositive ==
    (/\ call_op \in {"create_building_data", "create_building_polygon"}
     /\ (call_args.width <= 0 \/ call_args.length <= 0 \/ call_args.height <= 0))
    => call_ret.raised = "InvalidDimension"

\* C4: is_in_waterloo_zone is true for every point strictly inside the
\* rectangle -80.58 < lon < -80.50, 43.44 < lat < 43.49 and false for every
\* point strictly outside it.
C4_Containment ==
    call_op = "is_in_waterloo_zone" =>
        LET lon == call_args.lon
            lat == call_args.lat
        IN  /\ (-80580 < lon /\ lon < -80500 /\ 43440 < lat /\ lat < 43490)
                => call_ret.value = TRUE
            /\ (lon < -80580 \/ lon > -80500 \/ lat < 43440 \/ lat > 43490)
                => call_ret.value = FALSE

\* C4 witness: the zone's center was asked about and found inside, and a
\* point far outside would be found outside.
C4_Witness ==
    /\ call_op = "is_in_waterloo_zone"
    /\ call_args = [lon |-> -80540, lat |-> 43465]
    /\ call_ret.value = TRUE
    /\ ~is_in_waterloo_zone(-79000, 43465)

\* C5: at rotation 0 and for positive sides, each builder returns exactly 4
\* vertices, south-west, south-east, north-east, north-west, of an
\* axis-aligned rectangle whose centroid is the center and whose two
\* extents, taken back through the inverse of the builder's conversion, are
\* the input width and length (all to within the rounding of a coordinate).
C5_Rectangle ==
    LET c == <<ToFloat(call_args.lon), ToFloat(call_args.lat)>>
        w == call_args.width
        l == call_args.length
        P == call_ret.value.polygon
    IN  /\ (call_op = "create_building_data" /\ call_args.rotation = 0
               /\ PositiveSides)
           => /\ IsRectangleAbout(P, c)
              /\ \/ IsMetresFixed(EastWest(P), w, Tol(c))
                    /\ IsMetresFixed(NorthSouth(P), l, Tol(c))
                 \/ IsMetresFixed(EastWest(P), l, Tol(c))
                    /\ IsMetresFixed(NorthSouth(P), w, Tol(c))
        /\ (call_op = "create_building_polygon" /\ PositiveSides)
           => /\ IsRectangleAbout(P, c)
              /\ \/ IsMetresLon(EastWest(P), call_args.lat, w, Tol(c))
                    /\ IsMetresLat(NorthSouth(P), l, Tol(c))
                 \/ IsMetresLon(EastWest(P), call_args.lat, l, Tol(c))
                    /\ IsMetresLat(NorthSouth(P), w, Tol(c))

\* C5 witness: both sides positive and different, rotation 0, a builder ran.
C5_Witness ==
    /\ call_op = "create_building_data"
    /\ call_args.rotation = 0 /\ call_args.width = 30 /\ call_args.length = 50
    /\ call_args.lon = -80540 /\ call_args.lat = 43465
    /\ Len(call_ret.value.polygon) = 4

\* C6 as stated: rotating by the angle and then by its opposite about the
\* same center reproduces the point list to within the tolerance, and
\* exactly when the angle is a multiple of 90 degrees.
C6_RoundTripExactAtQuarterTurns ==
    call_op = "rotate_back" =>
        /\ ClosePoints(call_ret.value, ArgPoints, 2 * Tol(ArgCenter))
        /\ call_args.rotation % 90 = 0 => call_ret.value = ArgPoints

\* C6 as amended: rotating by the angle and then by its opposite about the
\* same center reproduces the point list, same vertices in the same order,
\* to within the tolerance, for every angle.
C6_RoundTrip ==
    call_op = "rotate_back" =>
        ClosePoints(call_ret.value, ArgPoints, 2 * Tol(ArgCenter))

\* C6 witness: a rectangle with different sides went through a rotation that
\* is no multiple of 90 degrees and back.
C6_Witness ==
    /\ call_op = "rotate_back"
    /\ call_args.rotation = 30
    /\ call_args.width = 30 /\ call_args.length = 50
    /\ call_ret.value # rotate_points(ArgPoints, 30, ArgCenter)

\* C8: rotate_points turns every vertex counter-clockwise about the center:
\* by 90 degrees the offset (x, y) becomes (-y, x), by 0 degrees the
\* vertices are returned unchanged, and the count and the order of the
\* vertices are kept (offsets to within the rounding of a coordinate).
C8_CounterClockwise ==
    call_op = "rotate_points" =>
        LET c == ArgCenter
            P == ArgPoints
            quarter == [i \in 1..Len(P) |->
                          <<c[1] - (P[i][2] - c[2]), c[2] + (P[i][1] - c[1])>>]
        IN  /\ Len(call_ret.value) = Len(P)
            /\ call_args.rotation = 0 => ClosePoints(call_ret.value, P, Tol(c))
            /\ call_args.rotation = 90 => ClosePoints(call_ret.value, quarter, Tol(c))

\* C8 witness: a quarter turn of a rectangle with different sides.
C8_Witness ==
    /\ call_op = "rotate_points"
    /\ call_args.rotation = 90
    /\ call_args.width = 10 /\ call_args.length = 50
    /\ call_ret.value # ArgPoints

\* C10: at rotation 0 both builders lay the width east-west (along the
\* longitude) and the length north-south (along the latitude).
C10_SameAxes ==
    LET c == <<ToFloat(call_args.lon), ToFloat(call_args.lat)>>
        P == call_ret.value.polygon
    IN  /\ (call_op = "create_building_data" /\ call_args.rotation = 0
               /\ PositiveSides)
           => /\ IsMetresFixed(EastWest(P), call_args.width, Tol(c))
              /\ IsMetresFixed(NorthSouth(P), call_args.length, Tol(c))
        /\ (call_op = "create_building_polygon" /\ PositiveSides)
           => /\ IsMetresLon(EastWest(P), call_args.lat, call_args.width, Tol(c))
              /\ IsMetresLat(NorthSouth(P), call_args.length, Tol(c))

-----------------------------------------------------------------------------
(* Claims about the maximum height *)

\* C2 as stated: the maximum height at a point is the zone's limit of 100
\* when the zone contains the point, and outside the zone it is unbounded:
\* no height the user may ask for exceeds it.
C2_UnboundedOutside ==
    call_op = "max_height" =>
        IF is_in_waterloo_zone(call_args.lon, call_args.lat)
        THEN call_ret.value = 100
        ELSE \A h \in HeightInputs : h <= call_ret.value

\* C2 as amended: the maximum height at a point is the zone's limit of 100
\* when the point is strictly inside the zone's rectangle, and at every
\* other point it is the fixed maximum of 1000.
C2_MaxHeight ==
    call_op = "max_height" =>
        LET lon == call_args.lon
            lat == call_args.lat
        IN  IF -80580 < lon /\ lon < -80500 /\ 43440 < lat /\ lat < 43490
            THEN call_ret.value = 100
            ELSE call_ret.value = 1000

\* C2 witness: the maximum was asked for a point far outside the zone.
C2_Witness ==
    /\ call_op = "max_height"
    /\ call_args = [lon |-> -79000, lat |-> 43465]
    /\ call_ret.value = 1000

-----------------------------------------------------------------------------
(* Claims about app.py's script *)

\* C1: after every run, if the session's coordinate lies inside the
\* Waterloo zone then the height handed to create_building_data and drawn
\* is at most the zone's limit of 100.
C1_HeightWithinLimit ==
    is_in_waterloo_zone(longitude, latitude) =>
        /\ building_data.height <= 100
        /\ building_data.height = height

\* C1 witness: a search has just moved the session into the zone, and the
\* building is drawn at the limit.
C1_Witness ==
    /\ event = "search" /\ location.kind = "location"
    /\ is_in_waterloo_zone(longitude, latitude)
    /\ longitude = location.longitude /\ latitude = location.latitude
    /\ building_data.height = 100

\* C9: a run in which Search is pressed sets the session's latitude,
\* longitude and formatted address to the geocoded result if the geocoder
\* returned a location, whatever its coordinates, and leaves all three
\* unchanged if it returned nothing, timed out or was unavailable.
C9_SearchUpdatesIffLocated ==
    [][event' = "search" =>
          IF location'.kind = "location"
          THEN /\ latitude' = location'.latitude
               /\ longitude' = location'.longitude
               /\ formatted_address' = location'.address
          ELSE UNCHANGED <<latitude, longitude, formatted_address>>]_vars

-----------------------------------------------------------------------------
(* Claims about 3dbuildings.py's script *)

\* C7: a run in which no coordinate is available (the address empty, not
\* found, or the geocoder timed out or unavailable) computes no polygon and
\* ends without an error, and a polygon is computed only from a latitude
\* and a longitude that exist.
C7_NoCoordinateNoPolygonNoError ==
    /\ ~(b_lat.state = "float" /\ b_lon.state = "float")
        => (b_polygon = NoValue /\ b_error = "none")
    /\ b_polygon # NoValue => (b_lat.state = "float" /\ b_lon.state = "float")

====
